---- MODULE Spec2Model ----
(***************************************************************************)
(* A model of the fuel-price dashboard (src/unnamed/part_001, lines 1-818: *)
(* the variant with URL sync and chart zoom).                              *)
(*                                                                         *)
(* Strings are sequences of tokens, so that join/split, JSON text and the  *)
(* `start;end` time pair are conversions the model really performs.  A     *)
(* station id, a fuel key or a preset name is a one-token string; an array *)
(* of strings is a sequence of strings.                                    *)
(*                                                                         *)
(* Three specifications share the definitions:                             *)
(*   SpecFetch    one call of fetchPaginatedData against a row source      *)
(*   Spec         startup restoration and the selection handlers           *)
(*   SpecRefresh  updateChartAndAnalysis with its per-station fetches      *)
(***************************************************************************)
EXTENDS Integers, Sequences, FiniteSets, TLC

VARIABLES
    source,             \* SpecFetch: the rows the remote query yields
    call,               \* SpecFetch/Spec: one fetchPaginatedData activation
    phase,              \* Spec: "boot" | "ready" | "failed" (initializeApp)
    allStations,        \* state.allStations
    selectedStations,   \* state.selectedStations (stations, by station_id)
    selectedFuelTypes,  \* state.selectedFuelTypes
    selectedTimeRange,  \* state.selectedTimeRange
    localStorage,       \* the three keys of window.localStorage
    location,           \* the three query parameters of window.location.search
    resetBtnVisible,    \* style.display of #resetZoomBtn
    tags,               \* the station tags renderSelectedStations drew
    recommendation,     \* what #recommendation shows
    lastOp,             \* the handler that ran last, with its argument
    refreshes,          \* SpecRefresh: activations of updateChartAndAnalysis
    chart,              \* SpecRefresh: what was rendered last
    advice              \* SpecAdvice: one call of computeAdvice (App.tsx)

fetchVars == <<source, call>>
selVars == <<phase, allStations, selectedStations, selectedFuelTypes,
             selectedTimeRange, localStorage, location, resetBtnVisible,
             tags, recommendation, lastOp>>
refreshVars == <<refreshes, chart>>
vars == <<source, call, phase, allStations, selectedStations,
          selectedFuelTypes, selectedTimeRange, localStorage, location,
          resetBtnVisible, tags, recommendation, lastOp, refreshes, chart,
          advice>>

(***************************************************************************)
(* Bounds of the model.                                                    *)
(***************************************************************************)
\* PAGE_SIZE is 1000 in the source (part_001:9); the model pages by a small
\* number so that full, short and empty last pages all occur.
PAGE_SIZE == 2
\* The longest row source of SpecFetch.
MaxRows == 5
\* Instants are 1..MaxInstant (milliseconds since the epoch, scaled).
MaxInstant == 2

(***************************************************************************)
(* Strings and arrays.                                                     *)
(***************************************************************************)
\* JavaScript null (params.get, localStorage.getItem, JSON.parse("null")).
Null == <<"<null>">>

Str(tok) == <<tok>>

Min(a, b) == IF a < b THEN a ELSE b

CeilDiv(a, b) == (a + b - 1) \div b

RECURSIVE Join(_, _)
\* Array.prototype.join: the elements with sep between them.
Join(arr, sep) ==
    IF arr = <<>> THEN <<>>
    ELSE IF Len(arr) = 1 THEN arr[1]
    ELSE arr[1] \o <<sep>> \o Join(Tail(arr), sep)

RECURSIVE Split(_, _)
\* String.prototype.split: "" gives [""], "a,,b" gives ["a", "", "b"].
Split(s, sep) ==
    IF \A i \in 1..Len(s) : s[i] # sep THEN <<s>>
    ELSE LET i == CHOOSE k \in 1..Len(s) :
                     s[k] = sep /\ \A j \in 1..(k - 1) : s[j] # sep
         IN <<SubSeq(s, 1, i - 1)>> \o Split(SubSeq(s, i + 1, Len(s)), sep)

Includes(s, tok) == \E i \in 1..Len(s) : s[i] = tok

\* JavaScript truthiness of a string-or-null.
Truthy(s) == s # Null /\ s # <<>>

RECURSIVE SelectSeqOf(_, _)
SelectSeqOf(s, set) ==
    IF s = <<>> THEN <<>>
    ELSE (IF s[1] \in set THEN <<s[1]>> ELSE <<>>) \o SelectSeqOf(Tail(s), set)

Range(s) == {s[i] : i \in 1..Len(s)}

(***************************************************************************)
(* fetchPaginatedData (part_001:203-234).  An activation runs from one     *)
(* `await fetch(url)` to the next; `pages` and `requests` are its history. *)
(***************************************************************************)
NoError == [status |-> 0, url |-> [query |-> "", limit |-> 0, offset |-> 0]]

\* line 213-214: the URL of one page request.
PageUrl(baseQuery, offset) ==
    [query |-> baseQuery, limit |-> PAGE_SIZE, offset |-> offset]

\* line 204-216: the activation up to its first await.
fetchPaginatedData(baseQuery) ==
    [pc |-> "await", query |-> baseQuery, allRows |-> <<>>, offset |-> 0,
     hasMore |-> TRUE, requests |-> <<PageUrl(baseQuery, 0)>>,
     pages |-> <<>>, statuses |-> <<>>, result |-> <<>>, error |-> NoError]

\* A response: an HTTP status and a JSON body whose `rows` field is an array
\* (hasRows) or is missing.
\* line 217: response.ok
ResponseOk(resp) == resp.status \in 200..299

\* line 221: data.rows || []
FetchedRows(resp) == IF resp.hasRows THEN resp.rows ELSE <<>>

ConcatRowsReversed(allRows, fetchedRows) == fetchedRows \o allRows
\* line 223-225
ConcatRows(allRows, fetchedRows) ==
    IF Len(fetchedRows) > 0 THEN allRows \o fetchedRows ELSE allRows

HasMoreUntilEmpty(fetchedRows) == Len(fetchedRows) > 0
\* A loop that no page ends.
HasMoreAlways(fetchedRows) == TRUE
\* line 227-231: a short page ends the loop.
HasMore(fetchedRows) == ~(Len(fetchedRows) < PAGE_SIZE)

OnNotOkReturnPartial(f, resp) ==
    [f EXCEPT !.pc = "returned", !.hasMore = FALSE, !.result = f.allRows]
\* line 217-219: throw new Error(`HTTP error! status: ... for URL: ...`)
OnNotOk(f, resp) ==
    [f EXCEPT !.pc = "thrown",
              !.error = [status |-> resp.status,
                         url |-> f.requests[Len(f.requests)]]]

\* line 216-233: from a settled fetch(url) to the next await, the return or
\* the throw.
OnResponse(f, resp) ==
    LET h == [f EXCEPT !.statuses = Append(f.statuses, resp.status)]
    IN IF ~ResponseOk(resp) THEN OnNotOk(h, resp)
       ELSE LET fetchedRows == FetchedRows(resp)
                rows == ConcatRows(h.allRows, fetchedRows)
                more == HasMore(fetchedRows)
                off == IF more THEN h.offset + PAGE_SIZE ELSE h.offset
                logged == [h EXCEPT !.allRows = rows, !.hasMore = more,
                                    !.offset = off,
                                    !.pages = Append(h.pages, fetchedRows)]
            IN IF more
               THEN [logged EXCEPT
                       !.requests = Append(h.requests, PageUrl(h.query, off))]
               ELSE [logged EXCEPT !.pc = "returned", !.result = rows]

\* line 216: fetch(url) itself rejects (a network error, no HTTP response).
OnReject(f) == [f EXCEPT !.pc = "thrown"]

\* The remote service honouring LIMIT/OFFSET over the rows `src`.
ServerPage(src, url) ==
    SubSeq(src, url.offset + 1, Min(url.offset + url.limit, Len(src)))

\* The responses the service can give to the request in flight.
Responses(src, url) ==
    {[status |-> 200, hasRows |-> TRUE, rows |-> ServerPage(src, url)],
     [status |-> 200, hasRows |-> FALSE, rows |-> <<>>],
     [status |-> 404, hasRows |-> FALSE, rows |-> <<>>],
     [status |-> 500, hasRows |-> FALSE, rows |-> <<>>]}

\* The answers of a service whose bodies are well-formed: the page, or a
\* server error.
PageOrError(src, url) ==
    {[status |-> 200, hasRows |-> TRUE, rows |-> ServerPage(src, url)],
     [status |-> 500, hasRows |-> FALSE, rows |-> <<>>]}

LastRequest(f) == f.requests[Len(f.requests)]


(***************************************************************************)
(* The view state and its two encodings (part_001:11-18, 52-105, 348-421). *)
(***************************************************************************)
\* line 27-31: the keys of FUEL_TYPE_CONFIG, in order.
FUEL_TYPE_CONFIG == <<Str("price_diesel"), Str("price_super"),
                      Str("price_super_e10")>>

\* The rows of gas_stations, ordered by name; a station stands for its row
\* and station_id is its external id.
Directory == <<"A", "B">>
station_id(st) == Str(st)

\* A Date is its time value; NaN is the time value of an Invalid Date.
Instants == 1..MaxInstant
NaN == 0
isNaN(d) == d = NaN

\* Date.prototype.toISOString: one token per instant.
toISOString(d) == Str(ToString(d))

\* new Date(string): the instant whose ISO string this is, else Invalid Date.
NewDate(s) ==
    IF \E t \in Instants : toISOString(t) = s
    THEN CHOOSE t \in Instants : toISOString(t) = s
    ELSE NaN

\* state.selectedTimeRange is a string or an object {start, end}; "null" is
\* the absent `time` parameter inside loadStateFromUrl.
TimeStr(s) == [type |-> "string", str |-> s, start |-> NaN, end |-> NaN]
TimeObj(a, b) == [type |-> "object", str |-> <<>>, start |-> a, end |-> b]
TimeNull == [type |-> "null", str |-> <<>>, start |-> NaN, end |-> NaN]
ALL == TimeStr(Str("all"))

\* A serialization that writes the start instant on both sides.
TimeRangeTextStartTwice(range) ==
    IF range.type = "object"
    THEN toISOString(range.start) \o <<";">> \o toISOString(range.start)
    ELSE range.str

\* line 62-67 and 396-402: the string written for a time range.
TimeRangeText(range) ==
    IF range.type = "object"
    THEN toISOString(range.start) \o <<";">> \o toISOString(range.end)
    ELSE range.str

\* line 90-97 and 412-419: a `start;end` pair of valid dates becomes an
\* object, any other string stays the string.
ParseTimeRange(saved) ==
    IF Includes(saved, ";")
    THEN LET parts == Split(saved, ";")
             startDate == NewDate(parts[1])
             endDate == NewDate(parts[2])
         IN IF ~isNaN(startDate) /\ ~isNaN(endDate)
            THEN TimeObj(startDate, endDate)
            ELSE TimeStr(saved)
    ELSE TimeStr(saved)

\* line 52-72: the query string updateUrlWithState installs.
updateUrlWithState(stations, fuelTypes, range) ==
    [stations |-> IF Len(stations) > 0
                  THEN Join([i \in 1..Len(stations) |->
                                 station_id(stations[i])], ",")
                  ELSE Null,
     fuels |-> Join(fuelTypes, ","),
     time |-> TimeRangeText(range)]

\* line 78-105.  isNull: the function returned null; fuelTypesNull: the
\* `fuelTypes` field is null.
loadStateFromUrl(loc) ==
    IF ~Truthy(loc.stations) /\ ~Truthy(loc.fuels) /\ ~Truthy(loc.time)
    THEN [isNull |-> TRUE, stationIds |-> <<>>, fuelTypesNull |-> TRUE,
          fuelTypes |-> <<>>, timeRange |-> TimeNull]
    ELSE [isNull |-> FALSE,
          stationIds |-> IF Truthy(loc.stations)
                         THEN Split(loc.stations, ",") ELSE <<>>,
          fuelTypesNull |-> loc.fuels = Null,
          fuelTypes |-> IF loc.fuels # Null /\ Truthy(loc.fuels)
                        THEN Split(loc.fuels, ",") ELSE <<>>,
          timeRange |-> IF loc.time = Null THEN TimeNull
                        ELSE IF Truthy(loc.time) THEN ParseTimeRange(loc.time)
                        ELSE TimeStr(loc.time)]

\* line 142-143 and 362: ids.map(id => allStations.find(...)).filter(Boolean)
RECURSIVE FindStations(_, _)
FindStations(ids, all) ==
    IF ids = <<>> THEN <<>>
    ELSE LET hits == {i \in 1..Len(all) : station_id(all[i]) = ids[1]}
             found == IF hits = {} THEN <<>>
                      ELSE <<all[CHOOSE i \in hits : \A j \in hits : i <= j]>>
         IN found \o FindStations(Tail(ids), all)

\* JSON.stringify of an array of strings: [ "a" , "b" ].
JSONstringify(arr) ==
    <<"[">> \o Join([i \in 1..Len(arr) |-> <<"\"">> \o arr[i] \o <<"\"">>], ",")
            \o <<"]">>

JSONString(piece) ==
    /\ Len(piece) >= 2
    /\ piece[1] = "\"" /\ piece[Len(piece)] = "\""
    /\ \A i \in 2..(Len(piece) - 1) : piece[i] # "\""

\* JSON.parse of the texts the store can hold: an array of strings, the
\* literal null (also what a null argument is coerced to), or no JSON at all
\* (a SyntaxError).
JSONparse(text) ==
    IF text = Null \/ text = Str("null")
    THEN [kind |-> "null", arr |-> <<>>]
    ELSE IF Len(text) >= 2 /\ text[1] = "[" /\ text[Len(text)] = "]"
    THEN LET inner == SubSeq(text, 2, Len(text) - 1)
             pieces == IF inner = <<>> THEN <<>> ELSE Split(inner, ",")
         IN IF \A i \in 1..Len(pieces) : JSONString(pieces[i])
            THEN [kind |-> "array",
                  arr |-> [i \in 1..Len(pieces) |->
                              SubSeq(pieces[i], 2, Len(pieces[i]) - 1)]]
            ELSE [kind |-> "throw", arr |-> <<>>]
    ELSE [kind |-> "throw", arr |-> <<>>]

\* line 348-351
saveSelectedStations(stations) ==
    JSONstringify([i \in 1..Len(stations) |-> station_id(stations[i])])

\* line 358-365.  threw: JSON.parse raised.
loadSelectedStations(all, store) ==
    LET text == IF Truthy(store.selectedStationIds)
                THEN store.selectedStationIds ELSE <<"[", "]">>
        savedIds == JSONparse(text)
    IN IF savedIds.kind # "array" THEN [threw |-> TRUE, value |-> <<>>]
       ELSE IF Len(savedIds.arr) > 0 /\ Len(all) > 0
       THEN [threw |-> FALSE, value |-> FindStations(savedIds.arr, all)]
       ELSE [threw |-> FALSE, value |-> <<>>]

\* line 370-372
saveSelectedFuelTypes(fuelTypes) == JSONstringify(fuelTypes)

\* A loader that takes every falsy-or-empty stored list for "nothing saved".
loadSelectedFuelTypesOrDefault(store) ==
    LET savedTypes == JSONparse(store.selectedFuelTypes)
    IN IF savedTypes.kind = "throw" THEN [threw |-> TRUE, value |-> <<>>]
       ELSE IF savedTypes.kind = "null" \/ savedTypes.arr = <<>>
       THEN [threw |-> FALSE, value |-> FUEL_TYPE_CONFIG]
       ELSE [threw |-> FALSE, value |-> savedTypes.arr]

\* line 378-382
loadSelectedFuelTypes(store) ==
    LET savedTypes == JSONparse(store.selectedFuelTypes)
    IN IF savedTypes.kind = "throw" THEN [threw |-> TRUE, value |-> <<>>]
       ELSE IF savedTypes.kind = "null"
       THEN [threw |-> FALSE, value |-> FUEL_TYPE_CONFIG]
       ELSE [threw |-> FALSE, value |-> savedTypes.arr]

\* line 394-404
saveSelectedTimeRange(range) == TimeRangeText(range)

\* line 410-421
loadSelectedTimeRange(store) ==
    LET saved == IF Truthy(store.selectedTimeRange)
                 THEN store.selectedTimeRange ELSE Str("all")
    IN ParseTimeRange(saved)

(***************************************************************************)
(* The handlers (part_001:126-195, 281-343, 482-491, 789-808).  A handler  *)
(* runs to completion; `refresh` of lastOp tells whether it called         *)
(* updateChartAndAnalysis.                                                 *)
(***************************************************************************)
Op(name, st, refresh) == [op |-> name, station |-> st, refresh |-> refresh]

MSG_LOAD_FAILED == "Fehler: Konnte die Tankstellen nicht laden."
MSG_SELECT == "Waehle eine oder mehrere Tankstellen aus"
MSG_LOADING == "Lade Preisdaten..."

\* line 484-491: what updateChartAndAnalysis shows before its first await.
RecommendationOnRefresh(stations) ==
    IF Len(stations) = 0 THEN MSG_SELECT ELSE MSG_LOADING

\* line 138-152: the restored fields; threw: a load function raised, and the
\* fields assigned before it keep their new values.
RestoreState(all, loc, store, oldStations, oldFuelTypes, oldRange) ==
    LET urlState == loadStateFromUrl(loc)
        ls == loadSelectedStations(all, store)
        lf == loadSelectedFuelTypes(store)
    IN IF ~urlState.isNull
       THEN [threw |-> FALSE,
             stations |-> FindStations(urlState.stationIds, all),
             fuelTypes |-> IF urlState.fuelTypesNull THEN FUEL_TYPE_CONFIG
                           ELSE urlState.fuelTypes,
             range |-> IF urlState.timeRange.type = "null"
                          \/ urlState.timeRange = TimeStr(<<>>)
                       THEN ALL ELSE urlState.timeRange]
       ELSE IF ls.threw
       THEN [threw |-> TRUE, stations |-> oldStations,
             fuelTypes |-> oldFuelTypes, range |-> oldRange]
       ELSE IF lf.threw
       THEN [threw |-> TRUE, stations |-> ls.value,
             fuelTypes |-> oldFuelTypes, range |-> oldRange]
       ELSE [threw |-> FALSE, stations |-> ls.value, fuelTypes |-> lf.value,
             range |-> loadSelectedTimeRange(store)]

\* A resume that takes a failed load of the directory for an empty directory.
InitializeAppResumeAfterFailure(g) ==
    IF g.pc = "thrown" /\ g.result # <<>>
    THEN /\ phase' = "failedLoad"
         /\ recommendation' = MSG_LOAD_FAILED
         /\ lastOp' = Op("init", "", FALSE)
         /\ UNCHANGED <<allStations, selectedStations, selectedFuelTypes,
                        selectedTimeRange, resetBtnVisible, tags>>
    ELSE LET r == RestoreState(g.result, location, localStorage,
                               selectedStations, selectedFuelTypes,
                               selectedTimeRange)
         IN /\ allStations' = g.result
            /\ selectedStations' = r.stations
            /\ selectedFuelTypes' = r.fuelTypes
            /\ selectedTimeRange' = r.range
            /\ IF r.threw
               THEN /\ phase' = "failedRestore"
                    /\ recommendation' = MSG_LOAD_FAILED
                    /\ lastOp' = Op("init", "", FALSE)
                    /\ UNCHANGED <<resetBtnVisible, tags>>
               ELSE /\ phase' = "ready"
                    /\ resetBtnVisible' = (r.range.type = "object")
                    /\ tags' = r.stations
                    /\ recommendation' =
                           IF Len(r.stations) > 0 THEN MSG_LOADING
                           ELSE recommendation
                    /\ lastOp' = Op("init", "", Len(r.stations) > 0)

\* line 126-166: initializeApp from the settled fetchStations on.
InitializeAppResume(g) ==
    IF g.pc = "thrown"
    THEN /\ phase' = "failedLoad"
         /\ recommendation' = MSG_LOAD_FAILED
         /\ lastOp' = Op("init", "", FALSE)
         /\ UNCHANGED <<allStations, selectedStations, selectedFuelTypes,
                        selectedTimeRange, resetBtnVisible, tags>>
    ELSE LET r == RestoreState(g.result, location, localStorage,
                               selectedStations, selectedFuelTypes,
                               selectedTimeRange)
         IN /\ allStations' = g.result
            /\ selectedStations' = r.stations
            /\ selectedFuelTypes' = r.fuelTypes
            /\ selectedTimeRange' = r.range
            /\ IF r.threw
               THEN /\ phase' = "failedRestore"
                    /\ recommendation' = MSG_LOAD_FAILED
                    /\ lastOp' = Op("init", "", FALSE)
                    /\ UNCHANGED <<resetBtnVisible, tags>>
               ELSE /\ phase' = "ready"
                    /\ resetBtnVisible' = (r.range.type = "object")
                    /\ tags' = r.stations
                    /\ recommendation' =
                           IF Len(r.stations) > 0 THEN MSG_LOADING
                           ELSE recommendation
                    /\ lastOp' = Op("init", "", Len(r.stations) > 0)

\* A page of the station directory arrives (or its request fails).
BootRespond ==
    /\ phase = "boot"
    /\ call.pc = "await"
    /\ \E resp \in PageOrError(source, LastRequest(call)) :
         LET g == OnResponse(call, resp)
         IN /\ call' = g
            /\ IF g.pc = "await"
               THEN /\ lastOp' = Op("page", "", FALSE)
                    /\ UNCHANGED <<phase, allStations, selectedStations,
                                   selectedFuelTypes, selectedTimeRange,
                                   resetBtnVisible, tags, recommendation>>
               ELSE InitializeAppResume(g)
    /\ UNCHANGED <<source, localStorage, location, refreshVars,
                   advice>>

FuseReady == phase \in {"ready", "failedRestore"}

\* A membership test that never finds the station.
NeverSelected(stations, st) == FALSE
\* line 283: state.selectedStations.find(s => s.station_id === station.station_id)
AlreadySelected(stations, st) ==
    \E i \in 1..Len(stations) : station_id(stations[i]) = station_id(st)

\* line 338: state.selectedStations.filter(s => s.station_id !== stationId)
FilterOut(stations, stationId) ==
    LET Keep(s) == station_id(s) # stationId
    IN SelectSeq(stations, Keep)

\* line 281-298: a click on the search result `st`.
handleResultClick(st) ==
    /\ FuseReady
    /\ st \in Range(allStations)
    /\ IF AlreadySelected(selectedStations, st)
       THEN /\ lastOp' = Op("add", st, FALSE)
            /\ UNCHANGED <<selectedStations, localStorage, location, tags,
                           recommendation>>
       ELSE /\ selectedStations' = Append(selectedStations, st)
            /\ localStorage' =
                   [localStorage EXCEPT !.selectedStationIds =
                        saveSelectedStations(selectedStations')]
            /\ location' = updateUrlWithState(selectedStations',
                                              selectedFuelTypes,
                                              selectedTimeRange)
            /\ tags' = selectedStations'
            /\ recommendation' = RecommendationOnRefresh(selectedStations')
            /\ lastOp' = Op("add", st, TRUE)
    /\ UNCHANGED <<phase, allStations, selectedFuelTypes, selectedTimeRange,
                   resetBtnVisible>>

\* line 326-343: a click on the remove button of the tag of `st`.
removeStation(st) ==
    /\ st \in Range(tags)
    /\ selectedStations' = FilterOut(selectedStations, station_id(st))
    /\ localStorage' = [localStorage EXCEPT !.selectedStationIds =
                            saveSelectedStations(selectedStations')]
    /\ location' = updateUrlWithState(selectedStations', selectedFuelTypes,
                                      selectedTimeRange)
    /\ tags' = selectedStations'
    /\ recommendation' = RecommendationOnRefresh(selectedStations')
    /\ lastOp' = Op("remove", st, TRUE)
    /\ UNCHANGED <<phase, allStations, selectedFuelTypes, selectedTimeRange,
                   resetBtnVisible>>

\* line 172-177: the checkboxes now checked are those at positions `checked`.
handleFuelTypeChange(checked) ==
    /\ selectedFuelTypes' =
           SelectSeqOf(FUEL_TYPE_CONFIG, {FUEL_TYPE_CONFIG[i] : i \in checked})
    /\ localStorage' = [localStorage EXCEPT !.selectedFuelTypes =
                            saveSelectedFuelTypes(selectedFuelTypes')]
    /\ location' = updateUrlWithState(selectedStations, selectedFuelTypes',
                                      selectedTimeRange)
    /\ recommendation' = RecommendationOnRefresh(selectedStations)
    /\ lastOp' = Op("fuels", "", TRUE)
    /\ UNCHANGED <<phase, allStations, selectedStations, selectedTimeRange,
                   resetBtnVisible, tags>>

\* The values of the time-range radio buttons (line 445, 461-465).
TimeRangeRadios == {"1d", "7d", "14d", "all"}

\* line 182-195
handleTimeRangeChange(value) ==
    /\ selectedTimeRange' = TimeStr(Str(value))
    /\ localStorage' = [localStorage EXCEPT !.selectedTimeRange =
                            saveSelectedTimeRange(selectedTimeRange')]
    /\ resetBtnVisible' = FALSE
    /\ recommendation' = RecommendationOnRefresh(selectedStations)
    /\ location' = updateUrlWithState(selectedStations, selectedFuelTypes,
                                      selectedTimeRange')
    /\ lastOp' = Op("preset", "", TRUE)
    /\ UNCHANGED <<phase, allStations, selectedStations, selectedFuelTypes,
                   tags>>

\* line 635-638 and 789-794: a zoom over the labels of instants a..b of the
\* chart; the labels are sorted, so a <= b.
handleZoom(a, b) ==
    /\ FuseReady
    /\ Len(selectedStations) > 0
    /\ a <= b
    /\ selectedTimeRange' = TimeObj(NewDate(toISOString(a)),
                                    NewDate(toISOString(b)))
    /\ localStorage' = [localStorage EXCEPT !.selectedTimeRange =
                            saveSelectedTimeRange(selectedTimeRange')]
    /\ location' = updateUrlWithState(selectedStations, selectedFuelTypes,
                                      selectedTimeRange')
    /\ resetBtnVisible' = TRUE
    /\ lastOp' = Op("zoom", "", FALSE)
    /\ UNCHANGED <<phase, allStations, selectedStations, selectedFuelTypes,
                   tags, recommendation>>

\* line 799-808
handleResetZoom ==
    /\ resetBtnVisible
    /\ selectedTimeRange' = ALL
    /\ localStorage' = [localStorage EXCEPT !.selectedTimeRange =
                            saveSelectedTimeRange(selectedTimeRange')]
    /\ recommendation' = RecommendationOnRefresh(selectedStations)
    /\ lastOp' = Op("resetZoom", "", TRUE)
    /\ UNCHANGED <<phase, allStations, selectedStations, selectedFuelTypes,
                   location, resetBtnVisible, tags>>

(***************************************************************************)
(* updateChartAndAnalysis (part_001:482-517) and fetchPriceHistory         *)
(* (522-549).  An activation issues one fetch per selected station, awaits *)
(* them all and then pairs state.selectedStations with the results.        *)
(***************************************************************************)
\* An instant is the InstantsPerDay-th part of a day; instant 1 is a Monday,
\* 00:00.
InstantsPerDay == 2
\* The instant of `new Date()`: a day after the newest row.
Now == MaxInstant + InstantsPerDay

\* Date.prototype.getDay and getHours.
getDay(d) == (1 + (d - 1) \div InstantsPerDay) % 7
getHours(d) == ((d - 1) % InstantsPerDay) * (24 \div InstantsPerDay)

\* A price that is null (or, from a Map, undefined).
NoPrice == -1
\* JavaScript truthiness of a price-or-null.
TruthyPrice(price) == price # NoPrice /\ price # 0

\* A row of price_history: prices in tenths of a cent, NoPrice for null.
Row(t, diesel, super, e10) ==
    [last_transmission |-> toISOString(t), price_diesel |-> diesel,
     price_super |-> super, price_super_e10 |-> e10]

\* The price history the service holds for each station, ordered by
\* last_transmission: two pages for A, one for B.
History(st) ==
    IF st = "A"
    THEN <<Row(1, 1899, 1799, NoPrice), Row(1, 1889, 1799, 1739),
           Row(2, 1879, NoPrice, 1729)>>
    ELSE <<Row(2, 1859, 1789, 1719)>>

\* row[fuelKey] for a key of FUEL_TYPE_CONFIG.
RowPrice(row, fuelKey) ==
    IF fuelKey = FUEL_TYPE_CONFIG[1] THEN row.price_diesel
    ELSE IF fuelKey = FUEL_TYPE_CONFIG[2] THEN row.price_super
    ELSE row.price_super_e10

\* line 448-478, for data that is an array.
filterDataByTimeRange(data, range) ==
    IF range = TimeStr(Str("all")) THEN data
    ELSE IF range.type = "object"
    THEN LET Keep(row) ==
                 LET rowDate == NewDate(row.last_transmission)
                 IN rowDate >= range.start /\ rowDate <= range.end
         IN SelectSeq(data, Keep)
    ELSE IF range.str \in {Str("1d"), Str("7d"), Str("14d")}
    THEN LET days == IF range.str = Str("1d") THEN 1
                     ELSE IF range.str = Str("7d") THEN 7 ELSE 14
             startDate == Now - days * InstantsPerDay
             Keep(row) == NewDate(row.last_transmission) >= startDate
         IN SelectSeq(data, Keep)
    ELSE data

\* line 522-549: the activation of fetchPaginatedData for one station.
fetchPriceHistory(st) == fetchPaginatedData(st)

\* A test that takes every fetch for settled.
SettledAtOnce(f) == TRUE
\* line 496: a promise of Promise.all is settled.
Settled(f) == f.pc \in {"returned", "thrown"}

\* line 540-548: the rows, or [] when fetchPaginatedData threw.
PriceHistoryResult(f) == IF f.pc = "thrown" THEN <<>> ELSE f.result

\* line 495: the activation up to `await Promise.all(...)`.
NewRefresh(stations) ==
    [pc |-> "await", stations |-> stations,
     fetches |-> [i \in 1..Len(stations) |-> fetchPriceHistory(stations[i])],
     outcome |-> "pending", range |-> ALL, lines |-> <<>>,
     analysed |-> <<>>]

\* What the page shows of the chart, of the cheapest prices and of the
\* patterns before anything was rendered.
NoChart == [state |-> "none", by |-> 0, lines |-> <<>>, labels |-> <<>>,
            datasets |-> <<>>, cheapest |-> <<>>, patterns |-> <<>>]

\* line 498-511: stationDataArray pairs the stations selected now with the
\* results by index; a station beyond the results gets undefined data, on
\* which renderMultiStationChart throws (line 565) after destroying the old
\* chart (line 558-560), so the catch of line 512 shows the error.
Paired(stations, results) ==
    [i \in 1..Len(stations) |->
        [station |-> stations[i],
         data |-> IF i <= Len(results) THEN results[i] ELSE <<>>,
         undefined |-> i > Len(results)]]

(***************************************************************************)
(* renderMultiStationChart (part_001:555-644).                             *)
(***************************************************************************)
\* The default order of Array.prototype.sort on the timestamps: they are
\* texts of one fixed format, which sort as their instants do.
LabelBefore(a, b) == NewDate(a) < NewDate(b)

RECURSIVE SortLabelsNewestFirst(_)
\* A sort that puts the latest timestamp first.
SortLabelsNewestFirst(set) ==
    IF set = {} THEN <<>>
    ELSE LET first == CHOOSE a \in set : \A b \in set : ~LabelBefore(a, b)
         IN <<first>> \o SortLabelsNewestFirst(set \ {first})

RECURSIVE SortLabels(_)
\* line 567: Array.from(allTimestamps).sort()
SortLabels(set) ==
    IF set = {} THEN <<>>
    ELSE LET first == CHOOSE a \in set : \A b \in set : ~LabelBefore(b, a)
         IN <<first>> \o SortLabels(set \ {first})

\* line 563-566: the Set of the timestamps of all rows.
AllTimestamps(stationDataArray) ==
    UNION {{stationDataArray[i].data[n].last_transmission :
                n \in 1..Len(stationDataArray[i].data)} :
           i \in 1..Len(stationDataArray)}

\* line 572 and 732: the fuels of FUEL_TYPE_CONFIG that are selected.
ActiveFuelTypes(fuelTypes) ==
    LET Active(key) == Includes(fuelTypes, key)
    IN SelectSeq(FUEL_TYPE_CONFIG, Active)

\* A lookup that yields 0 where the Map has no price.
PointOrZero(data, fuelKey, ts) ==
    LET at == {n \in 1..Len(data) : data[n].last_transmission = ts}
        price == IF at = {} THEN NoPrice
                 ELSE RowPrice(data[CHOOSE n \in at : \A m \in at : m <= n],
                               fuelKey)
    IN IF TruthyPrice(price) THEN price ELSE 0

\* line 578-580: priceMap.get(ts) || null; the Map keeps the last row of a
\* timestamp.
Point(data, fuelKey, ts) ==
    LET at == {n \in 1..Len(data) : data[n].last_transmission = ts}
        price == IF at = {} THEN NoPrice
                 ELSE RowPrice(data[CHOOSE n \in at : \A m \in at : m <= n],
                               fuelKey)
    IN IF TruthyPrice(price) THEN price ELSE NoPrice

\* line 562-591: the labels and the datasets, station by station and, for
\* each station, fuel by fuel.
renderMultiStationChart(stationDataArray, fuelTypes) ==
    LET sortedLabels == SortLabels(AllTimestamps(stationDataArray))
        activeFuelTypes == ActiveFuelTypes(fuelTypes)
        nFuel == Len(activeFuelTypes)
    IN [labels |-> sortedLabels,
        datasets |->
            [n \in 1..(Len(stationDataArray) * nFuel) |->
                LET sd == stationDataArray[((n - 1) \div nFuel) + 1]
                    fuel == activeFuelTypes[((n - 1) % nFuel) + 1]
                IN [station |-> sd.station, fuel |-> fuel,
                    data |-> [t \in 1..Len(sortedLabels) |->
                                 Point(sd.data, fuel, sortedLabels[t])]]]]

MSG_FETCH_FAILED == "Fehler beim Laden der Preisdaten."
MSG_ANALYSIS == "Aktuell guenstigste Preise"
MSG_NO_DATA == "Keine Preisdaten"
MSG_NO_CURRENT == "Keine aktuellen Preisdaten"

(***************************************************************************)
(* analyzePricePatterns (part_001:652-705) and analyzeMultiStationPrices   *)
(* (711-782).  An average is kept as its sum and count.                    *)
(***************************************************************************)
\* The rows a series must have to get a pattern analysis (50 in the source,
\* scaled).
MinPatternRows == 2

NoStat == [sum |-> 0, count |-> 0]

RECURSIVE BucketStat(_, _, _, _)
\* line 657-670: the sum and the count of the priced rows of one bucket;
\* byHour tells which of the two tables the bucket belongs to.
BucketStat(priceData, fuelKey, byHour, bucket) ==
    IF priceData = <<>> THEN NoStat
    ELSE LET row == priceData[1]
             price == RowPrice(row, fuelKey)
             date == NewDate(row.last_transmission)
             here == IF byHour THEN getHours(date) ELSE getDay(date)
             rest == BucketStat(Tail(priceData), fuelKey, byHour, bucket)
         IN IF TruthyPrice(price) /\ here = bucket
            THEN [sum |-> price + rest.sum, count |-> 1 + rest.count]
            ELSE rest

\* a < b for two averages of non-empty buckets.
AvgLess(a, b) == a.sum * b.count < b.sum * a.count

NoExtreme == [index |-> -1, stat |-> NoStat]

RECURSIVE CheapestBucketZeroFilled(_, _, _, _)
\* A search that takes an empty bucket for an average of zero.
CheapestBucketZeroFilled(stats, index, last, best) ==
    IF index > last THEN best
    ELSE LET stat == IF stats[index].count > 0 THEN stats[index]
                     ELSE [sum |-> 0, count |-> 1]
         IN CheapestBucketZeroFilled(
                stats, index + 1, last,
                IF best.index = -1 \/ AvgLess(stat, best.stat)
                THEN [index |-> index, stat |-> stat] ELSE best)

RECURSIVE CheapestBucket(_, _, _, _)
\* line 676-683 and 686-693: the first bucket with the lowest average.
CheapestBucket(stats, index, last, best) ==
    IF index > last THEN best
    ELSE CheapestBucket(
             stats, index + 1, last,
             IF stats[index].count > 0
                  /\ (best.index = -1 \/ AvgLess(stats[index], best.stat))
             THEN [index |-> index, stat |-> stats[index]] ELSE best)

RECURSIVE DearestBucket(_, _, _, _)
\* line 676-683 and 686-693: the first bucket with the highest average.
DearestBucket(stats, index, last, best) ==
    IF index > last THEN best
    ELSE DearestBucket(
             stats, index + 1, last,
             IF stats[index].count > 0
                  /\ (best.index = -1 \/ AvgLess(best.stat, stats[index]))
             THEN [index |-> index, stat |-> stats[index]] ELSE best)

\* line 652-705; isNull: the function returns null.
analyzePricePatterns(priceData, fuelKey) ==
    LET dailyStats == [d \in 0..6 |-> BucketStat(priceData, fuelKey, FALSE, d)]
        hourlyStats == [h \in 0..23 |-> BucketStat(priceData, fuelKey, TRUE, h)]
        cheapestDay == CheapestBucket(dailyStats, 0, 6, NoExtreme)
        dearestDay == DearestBucket(dailyStats, 0, 6, NoExtreme)
        cheapestHour == CheapestBucket(hourlyStats, 0, 23, NoExtreme)
        dearestHour == DearestBucket(hourlyStats, 0, 23, NoExtreme)
    IN [isNull |-> cheapestDay.index = -1 \/ cheapestHour.index = -1,
        cheapestDay |-> cheapestDay, dearestDay |-> dearestDay,
        cheapestHour |-> cheapestHour, dearestHour |-> dearestHour]

NoCheapest == [found |-> FALSE, station |-> "", price |-> 0]

RECURSIVE findCheapestLastWins(_, _, _)
\* A search in which a later station with the same price wins.
findCheapestLastWins(stationDataArray, fuelKey, cheapest) ==
    IF stationDataArray = <<>> THEN cheapest
    ELSE LET sd == stationDataArray[1]
             latestPrice == RowPrice(sd.data[Len(sd.data)], fuelKey)
         IN findCheapestLastWins(
                Tail(stationDataArray), fuelKey,
                IF Len(sd.data) > 0 /\ TruthyPrice(latestPrice)
                     /\ (~cheapest.found \/ latestPrice <= cheapest.price)
                THEN [found |-> TRUE, station |-> sd.station,
                      price |-> latestPrice]
                ELSE cheapest)

RECURSIVE findCheapest(_, _, _)
\* line 719-730, from the station at the head on; found = FALSE stands for
\* the price Infinity and, at the end, for the result null.
findCheapest(stationDataArray, fuelKey, cheapest) ==
    IF stationDataArray = <<>> THEN cheapest
    ELSE LET sd == stationDataArray[1]
             latestPrice == RowPrice(sd.data[Len(sd.data)], fuelKey)
         IN findCheapest(
                Tail(stationDataArray), fuelKey,
                IF Len(sd.data) > 0 /\ TruthyPrice(latestPrice)
                     /\ (~cheapest.found \/ latestPrice < cheapest.price)
                THEN [found |-> TRUE, station |-> sd.station,
                      price |-> latestPrice]
                ELSE cheapest)

\* line 736-742: the lines of the recommendation, one per active fuel that
\* has a cheapest station.
CheapestLines(stationDataArray, fuelTypes) ==
    LET activeFuelTypes == ActiveFuelTypes(fuelTypes)
        all == [n \in 1..Len(activeFuelTypes) |->
                   [fuel |-> activeFuelTypes[n],
                    cheapest |-> findCheapest(stationDataArray,
                                              activeFuelTypes[n], NoCheapest)]]
        Found(line) == line.cheapest.found
    IN SelectSeq(all, Found)

\* line 755-781: the pattern blocks, one per station with enough rows and
\* with a pattern for some active fuel.
PatternBlocks(stationDataArray, fuelTypes) ==
    LET activeFuelTypes == ActiveFuelTypes(fuelTypes)
        Patterned(sd) ==
            LET all == [n \in 1..Len(activeFuelTypes) |->
                           [fuel |-> activeFuelTypes[n],
                            patterns |-> analyzePricePatterns(
                                             sd.data, activeFuelTypes[n])]]
                NotNull(p) == ~p.patterns.isNull
            IN SelectSeq(all, NotNull)
        blocks == [i \in 1..Len(stationDataArray) |->
                      [station |-> stationDataArray[i].station,
                       fuels |-> IF Len(stationDataArray[i].data)
                                       < MinPatternRows
                                 THEN <<>>
                                 ELSE Patterned(stationDataArray[i])]]
        Shown(block) == block.fuels # <<>>
    IN SelectSeq(blocks, Shown)

\* line 711-782: what the function leaves in #recommendation and in
\* #pricePatternAnalysis (oldPatterns: what the latter held before).
analyzeMultiStationPrices(stationDataArray, fuelTypes, oldPatterns) ==
    IF \A i \in 1..Len(stationDataArray) : stationDataArray[i].data = <<>>
    THEN [text |-> MSG_NO_DATA, cheapest |-> <<>>, patterns |-> oldPatterns]
    ELSE LET lines == CheapestLines(stationDataArray, fuelTypes)
         IN [text |-> IF lines # <<>> THEN MSG_ANALYSIS ELSE MSG_NO_CURRENT,
             cheapest |-> lines,
             patterns |-> PatternBlocks(stationDataArray, fuelTypes)]

\* An analysis that is given the series the chart shows.
AnalysisInputAsShown(stationDataArray, filteredStationDataArray) ==
    filteredStationDataArray
\* line 511: analyzeMultiStationPrices(stationDataArray)
AnalysisInput(stationDataArray, filteredStationDataArray) == stationDataArray

\* A guard that drops the render of an activation once a later one has drawn.
ReplacesUnlessNewer(k, old) == old.by <= k
\* line 496-509: nothing between the await and the render asks whether a
\* later activation has rendered; activation k replaces the chart drawn by
\* any other.
Replaces(k, old) == TRUE

\* line 496-516: the activation r from the settled Promise.all on; old is
\* what the page shows.
FinishRefresh(r, k, stations, range, fuelTypes, old) ==
    LET results == [i \in 1..Len(r.fetches) |-> PriceHistoryResult(r.fetches[i])]
        stationDataArray == Paired(stations, results)
        broken == \E i \in 1..Len(stationDataArray) :
                      stationDataArray[i].undefined
        filtered == [i \in 1..Len(stationDataArray) |->
                        [station |-> stationDataArray[i].station,
                         data |-> filterDataByTimeRange(
                                      stationDataArray[i].data, range)]]
        plain == AnalysisInput(
                     [i \in 1..Len(stationDataArray) |->
                         [station |-> stationDataArray[i].station,
                          data |-> stationDataArray[i].data]],
                     filtered)
        drawn == renderMultiStationChart(filtered, fuelTypes)
        analysis == analyzeMultiStationPrices(plain, fuelTypes, old.patterns)
    IN IF broken
       THEN [refresh |-> [r EXCEPT !.pc = "done", !.outcome = "error",
                                   !.range = range],
             chart |-> [old EXCEPT
                           !.state = IF old.state = "none" THEN "none"
                                     ELSE "destroyed",
                           !.cheapest = <<>>],
             recommendation |-> MSG_FETCH_FAILED]
       ELSE [refresh |-> [r EXCEPT !.pc = "done", !.outcome = "rendered",
                                   !.range = range,
                                   !.lines = filtered, !.analysed = plain],
             chart |-> IF Replaces(k, old)
                       THEN [state |-> "drawn", by |-> k, lines |-> filtered,
                             labels |-> drawn.labels,
                             datasets |-> drawn.datasets,
                             cheapest |-> analysis.cheapest,
                             patterns |-> analysis.patterns]
                       ELSE old,
             recommendation |-> analysis.text]

\* The variables of SpecRefresh, at rest.
RefreshIdle ==
    /\ refreshes = <<>>
    /\ chart = NoChart

\* No call of computeAdvice.
AdviceIdle == advice = <<>>

(***************************************************************************)
(* Spec: the page is opened with some query string and some stored keys,   *)
(* the station directory loads, the state is restored and the user acts.   *)
(***************************************************************************)
\* Query strings the page can be opened with: absent and empty parameters,
\* a repeated id, an id no station has, an unknown fuel key, a reversed and
\* an unparseable time pair.
UrlStations == {Null, <<>>, <<"A">>, <<"B", ",", "A">>, <<"A", ",", "A">>,
                <<"X", ",", "B">>}
UrlFuels == {Null, <<>>, <<"price_diesel">>, <<"bogus">>}
UrlTimes == {Null, <<"7d">>, <<"1", ";", "2">>, <<"2", ";", "1">>,
             <<"x", ";", "1">>}

\* Stored values: absent, written by the handlers, or not JSON.
StoreStations == {Null, <<"[", "\"", "B", "\"", "]">>,
                  <<"[", "\"", "A", "\"", ",", "\"", "A", "\"", "]">>,
                  <<"{">>}
StoreFuels == {Null, <<"[", "]">>, <<"[", "\"", "price_super", "\"", "]">>,
               <<"{">>}
StoreTimes == {Null, <<"14d">>, <<"1", ";", "2">>, <<"x", ";", "2">>}

NoQuery == [stations |-> Null, fuels |-> Null, time |-> Null]

Openings ==
    {[loc |-> [stations |-> st, fuels |-> fu, time |-> ti],
      store |-> [selectedStationIds |-> sst, selectedFuelTypes |-> sfu,
                 selectedTimeRange |-> sti]] :
        st \in UrlStations, fu \in UrlFuels, ti \in UrlTimes,
        sst \in StoreStations, sfu \in StoreFuels, sti \in StoreTimes}

\* line 11-18 and 813-816: the state object, and main() up to the first
\* await of fetchStations (line 239-243).
Init ==
    /\ \E o \in Openings : location = o.loc /\ localStorage = o.store
    /\ source = Directory
    /\ call = fetchPaginatedData("stations")
    /\ phase = "boot"
    /\ allStations = <<>>
    /\ selectedStations = <<>>
    /\ selectedFuelTypes = <<>>
    /\ selectedTimeRange = ALL
    /\ resetBtnVisible = FALSE
    /\ tags = <<>>
    /\ recommendation = ""
    /\ lastOp = Op("main", "", FALSE)
    /\ AdviceIdle
    /\ RefreshIdle

ClickResult ==
    /\ \E st \in Range(Directory) : handleResultClick(st)
    /\ UNCHANGED <<fetchVars, refreshVars, advice>>

ClickRemove ==
    /\ \E st \in Range(Directory) : removeStation(st)
    /\ UNCHANGED <<fetchVars, refreshVars, advice>>

ChangeFuelTypes ==
    /\ \E checked \in SUBSET (1..Len(FUEL_TYPE_CONFIG)) :
           handleFuelTypeChange(checked)
    /\ UNCHANGED <<fetchVars, refreshVars, advice>>

ChangeTimeRange ==
    /\ \E value \in TimeRangeRadios : handleTimeRangeChange(value)
    /\ UNCHANGED <<fetchVars, refreshVars, advice>>

ZoomChart ==
    /\ \E a \in Instants, b \in Instants : handleZoom(a, b)
    /\ UNCHANGED <<fetchVars, refreshVars, advice>>

ClickResetZoom ==
    /\ handleResetZoom
    /\ UNCHANGED <<fetchVars, refreshVars, advice>>

\* line 813-818: the page is loaded again, with its query string (a reload)
\* or without one; localStorage outlives the page.
Reopen ==
    /\ \E keepQuery \in BOOLEAN :
           location' = IF keepQuery THEN location ELSE NoQuery
    /\ call' = fetchPaginatedData("stations")
    /\ phase' = "boot"
    /\ allStations' = <<>>
    /\ selectedStations' = <<>>
    /\ selectedFuelTypes' = <<>>
    /\ selectedTimeRange' = ALL
    /\ resetBtnVisible' = FALSE
    /\ tags' = <<>>
    /\ recommendation' = ""
    /\ lastOp' = Op("main", "", FALSE)
    /\ UNCHANGED <<source, localStorage, refreshVars, advice>>

Next ==
    \/ BootRespond
    \/ Reopen
    \/ ClickResult
    \/ ClickRemove
    \/ ChangeFuelTypes
    \/ ChangeTimeRange
    \/ ZoomChart
    \/ ClickResetZoom

Spec == Init /\ [][Next]_vars

(***************************************************************************)
(* SpecFetch: one call of fetchPaginatedData against a row source.         *)
(***************************************************************************)
RowVals == 1..2

RECURSIVE SeqsUpTo(_, _)
\* All sequences over `set` of length at most n.
SeqsUpTo(set, n) ==
    IF n = 0 THEN {<<>>}
    ELSE LET shorter == SeqsUpTo(set, n - 1)
         IN shorter \cup {Append(q, x) : q \in shorter, x \in set}

\* The variables a specification does not use keep these values.
SelIdle ==
    /\ phase = "off"
    /\ allStations = <<>>
    /\ selectedStations = <<>>
    /\ selectedFuelTypes = <<>>
    /\ selectedTimeRange = <<>>
    /\ localStorage = <<>>
    /\ location = <<>>
    /\ resetBtnVisible = FALSE
    /\ tags = <<>>
    /\ recommendation = ""
    /\ lastOp = <<>>

InitFetch ==
    /\ source \in SeqsUpTo(RowVals, MaxRows)
    /\ call = fetchPaginatedData("q")
    /\ SelIdle
    /\ RefreshIdle
    /\ AdviceIdle

\* The request in flight is answered.
FetchRespond ==
    /\ call.pc = "await"
    /\ \E resp \in Responses(source, LastRequest(call)) :
           call' = OnResponse(call, resp)
    /\ UNCHANGED <<source, selVars, refreshVars, advice>>

\* The request in flight fails without a response.
FetchReject ==
    /\ call.pc = "await"
    /\ call' = OnReject(call)
    /\ UNCHANGED <<source, selVars, refreshVars, advice>>

NextFetch == FetchRespond \/ FetchReject

SpecFetch == InitFetch /\ [][NextFetch]_vars

\* Every page received so far is the page the row source holds at the
\* requested offset (every request succeeded, with its rows).
HonestPages(f, src) ==
    /\ \A i \in 1..Len(f.statuses) : f.statuses[i] \in 200..299
    /\ \A i \in 1..Len(f.pages) : f.pages[i] = ServerPage(src, f.requests[i])

\* C1: for a source of N rows and page size P, with every page request
\* succeeding, fetchPaginatedData returns exactly the N rows, each once, in
\* the source's order.
C1_ReturnsAllRowsInOrder ==
    (call.pc = "returned" /\ HonestPages(call, source))
        => call.result = source

\* C1 witness: a return after three pages, two of them full.
C1_Witness ==
    /\ call.pc = "returned"
    /\ HonestPages(call, source)
    /\ Len(call.pages) = 3
    /\ Len(source) = 2 * PAGE_SIZE + 1
    /\ call.result = source

ExpectedRequests(n) ==
    IF n % PAGE_SIZE = 0 THEN CeilDiv(n + 1, PAGE_SIZE)
    ELSE CeilDiv(n, PAGE_SIZE)

\* C2: with N rows and page size P the call issues ceil((N+1)/P) requests
\* when P divides N and ceil(N/P) otherwise; request k carries LIMIT P and
\* OFFSET k*P; no request follows a page shorter than P.
C2_RequestCountAndOffsets ==
    /\ (call.pc = "returned" /\ HonestPages(call, source))
           => Len(call.requests) = ExpectedRequests(Len(source))
    /\ \A k \in 1..Len(call.requests) :
           /\ call.requests[k].limit = PAGE_SIZE
           /\ call.requests[k].offset = (k - 1) * PAGE_SIZE
    /\ \A i \in 1..Len(call.pages) :
           Len(call.pages[i]) < PAGE_SIZE => Len(call.requests) = i

\* C2 witness: N an exact multiple of P, so the last page is empty.
C2_Witness ==
    /\ call.pc = "returned"
    /\ HonestPages(call, source)
    /\ Len(source) = 2 * PAGE_SIZE
    /\ Len(call.requests) = 3
    /\ call.pages[3] = <<>>

\* C3: when the request for page N gets a non-successful status after pages
\* 0..N-1 succeeded, the call ends with an error carrying that status and
\* that request's URL, issues no further request, and hands no rows to its
\* caller.
C3_ErrorDiscardsPartialRows ==
    /\ \A i \in 1..Len(call.statuses) :
           call.statuses[i] \notin 200..299 =>
               /\ call.pc = "thrown"
               /\ call.error.status = call.statuses[i]
               /\ call.error.url = PageUrl(call.query, (i - 1) * PAGE_SIZE)
               /\ Len(call.requests) = i
               /\ Len(call.statuses) = i
               /\ call.result = <<>>
    /\ call.pc = "thrown" => ~ENABLED NextFetch

\* C3 witness: page 1 fails after page 0 delivered rows.
C3_Witness ==
    /\ call.pc = "thrown"
    /\ call.error.status = 500
    /\ Len(call.pages) = 1
    /\ call.allRows # <<>>
    /\ call.result = <<>>


(***************************************************************************)
(* Claims about the selection state (Spec).                                *)
(***************************************************************************)
\* A handler that changed the selection state ran last (a click on a result
\* that is already selected returns early and changes nothing).
MutatingOpRan ==
    \/ lastOp.op \in {"remove", "fuels", "preset", "zoom", "resetZoom"}
    \/ lastOp.op = "add" /\ lastOp.refresh

SelectedIds == [i \in 1..Len(selectedStations) |->
                    station_id(selectedStations[i])]

\* C5: in every reachable state no two entries of the selected stations
\* have the same external station id, also after restoration from the URL
\* or the durable store.
C5_NoDuplicateStations ==
    \A i \in 1..Len(selectedStations), j \in 1..Len(selectedStations) :
        i # j => station_id(selectedStations[i]) # station_id(selectedStations[j])

RECURSIVE C6_Without(_, _)
C6_Without(stations, id) ==
    IF stations = <<>> THEN <<>>
    ELSE (IF station_id(stations[1]) = id THEN <<>> ELSE <<stations[1]>>)
         \o C6_Without(Tail(stations), id)

\* C6: adding a station whose id is not selected appends it and keeps the
\* earlier entries; adding a selected one changes nothing; removing an id
\* deletes exactly the entries with that id and keeps the order of the
\* others; neither changes the fuel types or the time window.
C6_AddRemoveEffect ==
    [][/\ lastOp'.op = "add" =>
            /\ selectedStations' =
                   IF station_id(lastOp'.station) \in Range(SelectedIds)
                   THEN selectedStations
                   ELSE Append(selectedStations, lastOp'.station)
            /\ UNCHANGED <<selectedFuelTypes, selectedTimeRange>>
       /\ lastOp'.op = "remove" =>
            /\ selectedStations' =
                   C6_Without(selectedStations, station_id(lastOp'.station))
            /\ station_id(lastOp'.station) \notin Range(SelectedIds)
                   => selectedStations' = selectedStations
            /\ UNCHANGED <<selectedFuelTypes, selectedTimeRange>>
       /\ \A st \in Range(Directory) :
            station_id(st) \notin Range(SelectedIds)
                => FilterOut(selectedStations, station_id(st)) = selectedStations
      ]_vars

\* C6 witness: B was appended behind A, under fuel types and a time window
\* that are not the defaults.
C6_Witness ==
    /\ lastOp = Op("add", "B", TRUE)
    /\ selectedStations = <<"A", "B">>
    /\ selectedFuelTypes = <<Str("price_super")>>
    /\ selectedTimeRange = TimeStr(Str("7d"))

\* C7: after each mutating operation the query string encodes the current
\* selection: its three parameters decode to the selected ids, the active
\* fuel keys and the time window.
C7_UrlEncodesState ==
    (phase = "ready" /\ MutatingOpRan) =>
        LET u == loadStateFromUrl(location)
        IN /\ ~u.isNull
           /\ u.stationIds = SelectedIds
           /\ ~u.fuelTypesNull
           /\ u.fuelTypes = selectedFuelTypes
           /\ u.timeRange = selectedTimeRange

\* C8: after each mutating operation the three stored keys together encode
\* the whole current selection.
C8_StoreEncodesState ==
    (phase = "ready" /\ MutatingOpRan) =>
        /\ loadSelectedStations(allStations, localStorage)
               = [threw |-> FALSE, value |-> selectedStations]
        /\ loadSelectedFuelTypes(localStorage)
               = [threw |-> FALSE, value |-> selectedFuelTypes]
        /\ loadSelectedTimeRange(localStorage) = selectedTimeRange

\* What the three parameters of a query string stand for.
C9_FromUrl(loc) ==
    [stations |-> IF loc.stations = Null THEN <<>>
                  ELSE FindStations(Split(loc.stations, ","), Directory),
     fuelTypes |-> IF loc.fuels = Null THEN FUEL_TYPE_CONFIG
                   ELSE IF loc.fuels = <<>> THEN <<>>
                   ELSE Split(loc.fuels, ","),
     range |-> IF loc.time = Null \/ loc.time = <<>> THEN ALL
               ELSE ParseTimeRange(loc.time)]

C9_Restored ==
    [stations |-> selectedStations, fuelTypes |-> selectedFuelTypes,
     range |-> selectedTimeRange]

\* C9: at startup, a URL that carries at least one of stations, fuels, time
\* decides all three fields and the store is ignored; otherwise the store
\* decides, and an empty store gives no stations, all fuel types and 'all'.
C9_RestorePrecedence ==
    (phase = "ready" /\ lastOp.op = "init") =>
        IF location.stations # Null \/ location.fuels # Null
               \/ location.time # Null
        THEN C9_Restored = C9_FromUrl(location)
        ELSE /\ selectedStations
                    = loadSelectedStations(Directory, localStorage).value
             /\ selectedFuelTypes = loadSelectedFuelTypes(localStorage).value
             /\ selectedTimeRange = loadSelectedTimeRange(localStorage)
             /\ localStorage = [selectedStationIds |-> Null,
                                selectedFuelTypes |-> Null,
                                selectedTimeRange |-> Null]
                    => C9_Restored = [stations |-> <<>>,
                                      fuelTypes |-> FUEL_TYPE_CONFIG,
                                      range |-> ALL]

\* C10: after the fuel types are set to the empty set the active set is
\* empty and the stored value loads as the empty set; a startup from the
\* store restores the stored set, and the default set only when the key is
\* absent.
C10_EmptyFuelTypesRoundTrip ==
    /\ (lastOp.op = "fuels" /\ selectedFuelTypes = <<>>) =>
           /\ localStorage.selectedFuelTypes = <<"[", "]">>
           /\ loadSelectedFuelTypes(localStorage)
                  = [threw |-> FALSE, value |-> <<>>]
    /\ (phase = "ready" /\ lastOp.op = "init"
            /\ loadStateFromUrl(location).isNull) =>
           /\ localStorage.selectedFuelTypes = <<"[", "]">>
                  => selectedFuelTypes = <<>>
           /\ (selectedFuelTypes = FUEL_TYPE_CONFIG
                  /\ localStorage.selectedFuelTypes
                         # JSONstringify(FUEL_TYPE_CONFIG))
                  => localStorage.selectedFuelTypes = Null
    /\ (loadSelectedFuelTypes(localStorage)
             = [threw |-> FALSE, value |-> FUEL_TYPE_CONFIG]
          /\ localStorage.selectedFuelTypes # JSONstringify(FUEL_TYPE_CONFIG))
           => localStorage.selectedFuelTypes = Null

\* C10 witness: with a station selected, the last fuel type was unchecked;
\* the stored value is the empty list and loads as the empty list.
C10_Witness ==
    /\ lastOp.op = "fuels"
    /\ Len(selectedStations) > 0
    /\ selectedFuelTypes = <<>>
    /\ localStorage.selectedFuelTypes = <<"[", "]">>
    /\ loadSelectedFuelTypes(localStorage).value = <<>>

\* The restoration of initializeApp has just run to its end.
Restored == phase = "ready" /\ lastOp.op = "init"

\* C11: on restoration, a fuels parameter present with an empty value gives
\* the empty fuel set and an absent one (next to another parameter) gives
\* all three keys, whatever the other two parameters are.
C11_EmptyVersusAbsentFuels ==
    Restored =>
        /\ location.fuels = <<>> => selectedFuelTypes = <<>>
        /\ (location.fuels = Null
              /\ (location.stations # Null \/ location.time # Null))
               => selectedFuelTypes = FUEL_TYPE_CONFIG

C13_InvalidPair(text) ==
    /\ text # Null
    /\ Includes(text, ";")
    /\ LET parts == Split(text, ";")
       IN isNaN(NewDate(parts[1])) \/ isNaN(NewDate(parts[2]))

\* C13: a `start;end` value with an unparseable side is restored as the
\* window 'all', from the store as well as from the URL.
C13_InvalidPairGivesAll ==
    Restored =>
        /\ (~loadStateFromUrl(location).isNull /\ C13_InvalidPair(location.time))
               => selectedTimeRange = ALL
        /\ (loadStateFromUrl(location).isNull
              /\ C13_InvalidPair(localStorage.selectedTimeRange))
               => selectedTimeRange = ALL

\* C14: an explicit range never starts after it ends.
C14_RangeOrdered ==
    selectedTimeRange.type = "object"
        => selectedTimeRange.start <= selectedTimeRange.end

\* C15: once the directory has loaded, startup ends with a restored
\* selection and without the failure message, whatever the store and the
\* URL hold.
C15_StartupNeverFatal ==
    (lastOp.op = "init" /\ call.pc = "returned") =>
        /\ phase = "ready"
        /\ recommendation # MSG_LOAD_FAILED

(***************************************************************************)
(* SpecRefresh: the directory is loaded and nothing is selected; the user  *)
(* adds and removes stations while the price histories are being fetched.  *)
(***************************************************************************)
\* The number of activations of updateChartAndAnalysis that fetch.
MaxRefreshes == 2

InitRefresh ==
    /\ source = Directory
    /\ call = [fetchPaginatedData("stations") EXCEPT !.pc = "returned"]
    /\ phase = "ready"
    /\ allStations = Directory
    /\ selectedStations = <<>>
    /\ selectedFuelTypes = FUEL_TYPE_CONFIG
    /\ selectedTimeRange = ALL
    /\ localStorage = [selectedStationIds |-> Null,
                       selectedFuelTypes |-> Null,
                       selectedTimeRange |-> Null]
    /\ location = NoQuery
    /\ resetBtnVisible = FALSE
    /\ tags = <<>>
    /\ recommendation = ""
    /\ lastOp = Op("init", "", FALSE)
    /\ RefreshIdle
    /\ AdviceIdle

\* line 482-496: updateChartAndAnalysis up to its await, when the handler
\* that just ran called it.
StartRefresh ==
    IF ~lastOp'.refresh THEN UNCHANGED refreshVars
    ELSE IF Len(selectedStations') = 0
    THEN /\ chart' = [chart EXCEPT
                          !.state = IF chart.state = "none" THEN "none"
                                    ELSE "destroyed",
                          !.cheapest = <<>>]
         /\ UNCHANGED refreshes
    ELSE /\ Len(refreshes) < MaxRefreshes
         /\ refreshes' = Append(refreshes, NewRefresh(selectedStations'))
         /\ chart' = [chart EXCEPT !.cheapest = <<>>]

RClickResult ==
    /\ \E st \in Range(Directory) : handleResultClick(st)
    /\ StartRefresh
    /\ UNCHANGED <<fetchVars, advice>>

RClickRemove ==
    /\ \E st \in Range(Directory) : removeStation(st)
    /\ StartRefresh
    /\ UNCHANGED <<fetchVars, advice>>

\* A page request of fetch i of activation k is answered; the activation
\* resumes once its last fetch has settled.
RefreshRespond ==
    /\ \E k \in 1..Len(refreshes) :
         \E i \in 1..Len(refreshes[k].fetches) :
           LET f == refreshes[k].fetches[i]
           IN /\ refreshes[k].pc = "await"
              /\ f.pc = "await"
              /\ \E resp \in PageOrError(History(f.query), LastRequest(f)) :
                   LET r == [refreshes[k] EXCEPT
                                !.fetches[i] = OnResponse(f, resp)]
                   IN IF \A j \in 1..Len(r.fetches) : Settled(r.fetches[j])
                      THEN \E done \in {FinishRefresh(r, k, selectedStations,
                                                      selectedTimeRange,
                                                      selectedFuelTypes,
                                                      chart)} :
                              /\ refreshes' =
                                     [refreshes EXCEPT ![k] = done.refresh]
                              /\ chart' = done.chart
                              /\ recommendation' = done.recommendation
                      ELSE /\ refreshes' = [refreshes EXCEPT ![k] = r]
                           /\ UNCHANGED <<chart, recommendation>>
    /\ lastOp' = Op("page", "", FALSE)
    /\ UNCHANGED <<fetchVars, phase, allStations, selectedStations,
                   selectedFuelTypes, selectedTimeRange, localStorage,
                   location, resetBtnVisible, tags, advice>>

NextRefresh == RClickResult \/ RClickRemove \/ RefreshRespond

SpecRefresh == InitRefresh /\ [][NextRefresh]_vars

\* C4: in one refresh, a failed history fetch of one station gives that
\* station an empty series and nothing else: the refresh still renders the
\* chart and the analysis, and every station it renders has exactly the
\* rows its own fetch returned.
C4_FailureIsolatedPerStation ==
    \A k \in 1..Len(refreshes) :
        LET r == refreshes[k]
        IN (r.pc = "done"
              /\ \E i \in 1..Len(r.fetches) : r.fetches[i].pc = "thrown")
           => /\ r.outcome = "rendered"
              /\ \A j \in 1..Len(r.analysed) :
                   \A i \in 1..Len(r.stations) :
                     r.analysed[j].station = r.stations[i] =>
                       r.analysed[j].data =
                           IF r.fetches[i].pc = "thrown" THEN <<>>
                           ELSE r.fetches[i].result


(***************************************************************************)
(* SpecChart: an activation of updateChartAndAnalysis resumes at line 496  *)
(* with the results of its fetches, which are drawn from the series below, *)
(* and renders the chart and the analysis.                                 *)
(***************************************************************************)
\* The rows of a drawn series.
MaxPoints == 2

\* Rows of every instant with every combination of a priced and an
\* unpriced fuel.
PriceRows ==
    {Row(t, diesel, IF e10 = NoPrice THEN 1879 ELSE NoPrice, e10) :
        t \in Instants, diesel \in {NoPrice, 1879, 1899},
        e10 \in {NoPrice, 1889}}

\* Series as the query orders them (ORDER BY last_transmission); rows of one
\* transmission time are one transmission and carry the same prices.
Series ==
    {data \in SeqsUpTo(PriceRows, MaxPoints) :
        \A n \in 1..(Len(data) - 1) :
            /\ ~LabelBefore(data[n + 1].last_transmission,
                            data[n].last_transmission)
            /\ data[n + 1].last_transmission = data[n].last_transmission
                   => data[n + 1] = data[n]}

\* The series the second station may have.
OtherSeries ==
    {<<>>, <<Row(1, 1899, NoPrice, 1889), Row(2, 1879, 1879, NoPrice)>>}

\* The selections and the results of their fetches.
Fetched ==
    {[stations |-> <<"A">>, results |-> <<a>>] : a \in Series}
        \cup {[stations |-> <<"A", "B">>, results |-> <<a, b>>] :
                 a \in Series, b \in OtherSeries}
        \cup {[stations |-> <<"B", "A">>, results |-> <<b, a>>] :
                 a \in Series, b \in OtherSeries}

\* The display windows: all, a preset and an explicit range.
Windows == {ALL, TimeStr(Str("1d")), TimeObj(1, 1)}

\* The fuel selections: none, one and all.
FuelSelections ==
    {SelectSeqOf(FUEL_TYPE_CONFIG, {FUEL_TYPE_CONFIG[i] : i \in on}) :
        on \in {{}, {1}, {1, 2, 3}}}

InitChart ==
    /\ source = Directory
    /\ call = [fetchPaginatedData("stations") EXCEPT !.pc = "returned"]
    /\ phase = "ready"
    /\ allStations = Directory
    /\ \E in \in Fetched :
         /\ selectedStations = in.stations
         /\ tags = in.stations
         /\ refreshes =
                <<[NewRefresh(in.stations) EXCEPT
                      !.fetches = [i \in 1..Len(in.stations) |->
                                      [fetchPriceHistory(in.stations[i]) EXCEPT
                                          !.pc = "returned",
                                          !.result = in.results[i]]]]>>
    /\ selectedFuelTypes \in FuelSelections
    /\ selectedTimeRange \in Windows
    /\ localStorage = [selectedStationIds |-> Null,
                       selectedFuelTypes |-> Null,
                       selectedTimeRange |-> Null]
    /\ location = NoQuery
    /\ resetBtnVisible = (selectedTimeRange.type = "object")
    /\ recommendation = MSG_LOADING
    /\ lastOp = Op("page", "", FALSE)
    /\ chart = NoChart
    /\ AdviceIdle

\* line 496-516: the activation resumes and renders.
ChartResume ==
    /\ refreshes[1].pc = "await"
    /\ \E done \in {FinishRefresh(refreshes[1], 1, selectedStations,
                                    selectedTimeRange, selectedFuelTypes,
                                    chart)} :
          /\ refreshes' = <<done.refresh>>
          /\ chart' = done.chart
          /\ recommendation' = done.recommendation
    /\ lastOp' = Op("render", "", FALSE)
    /\ UNCHANGED <<fetchVars, phase, allStations, selectedStations,
                   selectedFuelTypes, selectedTimeRange, localStorage,
                   location, resetBtnVisible, tags, advice>>

NextChart == ChartResume

SpecChart == InitChart /\ [][NextChart]_vars


\* The series of `station` in a list of station data.
SeriesOf(stationDataArray, station) ==
    LET i == CHOOSE k \in 1..Len(stationDataArray) :
                 stationDataArray[k].station = station
    IN stationDataArray[i].data

\* C16: in the drawn chart every station has one series per active fuel, and
\* its value at a label is the price that station's shown series has for the
\* fuel at exactly that timestamp, or the gap marker when it has no row or
\* no price there; it is never 0.
C16_GapFidelity ==
    chart.state = "drawn" =>
        /\ \A i \in 1..Len(chart.lines) :
             \A f \in 1..Len(FUEL_TYPE_CONFIG) :
               Includes(selectedFuelTypes, FUEL_TYPE_CONFIG[f]) =>
                 \E n \in 1..Len(chart.datasets) :
                    /\ chart.datasets[n].station = chart.lines[i].station
                    /\ chart.datasets[n].fuel = FUEL_TYPE_CONFIG[f]
        /\ \A n \in 1..Len(chart.datasets) :
             LET ds == chart.datasets[n]
                 data == SeriesOf(chart.lines, ds.station)
             IN /\ Len(ds.data) = Len(chart.labels)
                /\ \A t \in 1..Len(chart.labels) :
                     LET prices ==
                             {RowPrice(data[k], ds.fuel) :
                                 k \in {m \in 1..Len(data) :
                                          data[m].last_transmission
                                              = chart.labels[t]}}
                                 \ {NoPrice}
                     IN /\ ds.data[t] # 0
                        /\ IF prices = {} THEN ds.data[t] = NoPrice
                           ELSE prices = {ds.data[t]}

\* C16 witness: B has a row at the first label and A has none; at the
\* second label A has a row without a diesel price.
C16_Witness ==
    /\ chart.state = "drawn"
    /\ selectedStations = <<"A", "B">>
    /\ SeriesOf(chart.lines, "A") = <<Row(2, NoPrice, 1879, NoPrice)>>
    /\ SeriesOf(chart.lines, "B") = <<Row(1, 1899, NoPrice, 1889),
                                      Row(2, 1879, 1879, NoPrice)>>
    /\ chart.labels = <<toISOString(1), toISOString(2)>>
    /\ \E n, m, o \in 1..Len(chart.datasets) :
         /\ chart.datasets[n]
                = [station |-> "A", fuel |-> FUEL_TYPE_CONFIG[1],
                   data |-> <<NoPrice, NoPrice>>]
         /\ chart.datasets[m]
                = [station |-> "B", fuel |-> FUEL_TYPE_CONFIG[1],
                   data |-> <<1899, 1879>>]
         /\ chart.datasets[o]
                = [station |-> "A", fuel |-> FUEL_TYPE_CONFIG[2],
                   data |-> <<NoPrice, 1879>>]

\* C17: the labels of the drawn chart are exactly the timestamps of the
\* shown (window-filtered) series, each once and in increasing order, and
\* every series has one value per label.
C17_MasterTimeline ==
    chart.state = "drawn" =>
        /\ \A t \in 1..(Len(chart.labels) - 1) :
             LabelBefore(chart.labels[t], chart.labels[t + 1])
        /\ Range(chart.labels) = AllTimestamps(chart.lines)
        /\ \A n \in 1..Len(chart.datasets) :
             Len(chart.datasets[n].data) = Len(chart.labels)

\* C17 witness: two stations share one timestamp and differ in another, and
\* the window has removed a fetched timestamp from the labels.
C17_Witness ==
    /\ chart.state = "drawn"
    /\ selectedTimeRange = TimeStr(Str("1d"))
    /\ Len(selectedStations) = 2
    /\ chart.labels = <<toISOString(MaxInstant)>>
    /\ AllTimestamps(refreshes[1].analysed)
           = {toISOString(t) : t \in {1, 2}}
    /\ \A i \in 1..2 : Len(refreshes[1].analysed[i].data) = 2

\* C18: the analysis of a refresh gets the full fetched series and the chart
\* their window-filtered copies: the cheapest prices and the patterns shown
\* are those of the full series, every window only removes rows from the
\* copies, and the fetched series stay as they were.
C18_AnalysisUnfiltered ==
    \A k \in 1..Len(refreshes) :
        LET r == refreshes[k]
        IN (r.pc = "done" /\ r.outcome = "rendered") =>
             /\ \A i \in 1..Len(r.analysed) :
                  /\ r.analysed[i].data = PriceHistoryResult(r.fetches[i])
                  /\ r.lines[i].data
                         = filterDataByTimeRange(r.analysed[i].data, r.range)
                  /\ Range(r.lines[i].data) \subseteq Range(r.analysed[i].data)
                  /\ r.lines[i].station = r.analysed[i].station
             /\ (chart.by = k /\ chart.state = "drawn") =>
                  /\ chart.lines = r.lines
                  /\ chart.cheapest
                         = CheapestLines(
                               [i \in 1..Len(r.analysed) |->
                                   [station |-> r.analysed[i].station,
                                    data |-> PriceHistoryResult(r.fetches[i])]],
                               selectedFuelTypes)

\* C18 witness: under an explicit range that hides the latest row, the
\* cheapest diesel price shown is the one of that hidden row.
C18_Witness ==
    /\ chart.state = "drawn"
    /\ selectedTimeRange = TimeObj(1, 1)
    /\ selectedStations = <<"A">>
    /\ refreshes[1].analysed[1].data
           = <<Row(1, 1899, NoPrice, 1889), Row(2, 1879, 1879, NoPrice)>>
    /\ chart.lines[1].data = <<Row(1, 1899, NoPrice, 1889)>>
    /\ Len(chart.cheapest) > 0
    /\ chart.cheapest[1] = [fuel |-> FUEL_TYPE_CONFIG[1],
                            cheapest |-> [found |-> TRUE, station |-> "A",
                                          price |-> 1879]]


\* The last price of a series for a fuel, NoPrice for an empty series.
C19_LatestPrice(data, fuelKey) ==
    IF data = <<>> THEN NoPrice ELSE RowPrice(data[Len(data)], fuelKey)

\* C19: for each fuel the cheapest-across-stations result names the station
\* whose last row has the lowest price for the fuel, among the stations with
\* a non-empty series and a price in the last row; of equally cheap stations
\* the one selected earlier; and it is null when no station qualifies.  The
\* lines shown are these results for the active fuels.
C19_CheapestAcrossStations ==
    chart.state = "drawn" =>
        LET sda == refreshes[1].analysed
            Latest(i, fuelKey) == C19_LatestPrice(sda[i].data, fuelKey)
        IN /\ \A f \in 1..Len(FUEL_TYPE_CONFIG) :
                LET fuelKey == FUEL_TYPE_CONFIG[f]
                    qualify == {i \in 1..Len(sda) :
                                  Latest(i, fuelKey) # NoPrice}
                    res == findCheapest(sda, fuelKey, NoCheapest)
                IN IF qualify = {} THEN ~res.found
                   ELSE LET best == CHOOSE i \in qualify :
                                \A j \in qualify :
                                   \/ Latest(i, fuelKey) < Latest(j, fuelKey)
                                   \/ /\ Latest(i, fuelKey) = Latest(j, fuelKey)
                                      /\ i <= j
                        IN /\ res.found
                           /\ res.station = sda[best].station
                           /\ res.price = Latest(best, fuelKey)
           /\ \A n \in 1..Len(chart.cheapest) :
                /\ Includes(selectedFuelTypes, chart.cheapest[n].fuel)
                /\ chart.cheapest[n].cheapest
                       = findCheapest(sda, chart.cheapest[n].fuel, NoCheapest)

\* C19 witness: B is selected before A, both end at the same diesel price
\* and B is shown as the cheapest; for E10 no station qualifies.
C19_Witness ==
    /\ chart.state = "drawn"
    /\ selectedStations = <<"B", "A">>
    /\ selectedFuelTypes = FUEL_TYPE_CONFIG
    /\ C19_LatestPrice(SeriesOf(refreshes[1].analysed, "A"),
                       FUEL_TYPE_CONFIG[1]) = 1879
    /\ C19_LatestPrice(SeriesOf(refreshes[1].analysed, "B"),
                       FUEL_TYPE_CONFIG[1]) = 1879
    /\ Len(SeriesOf(refreshes[1].analysed, "A")) = 2
    /\ Len(chart.cheapest) = 2
    /\ chart.cheapest[1].cheapest
           = [found |-> TRUE, station |-> "B", price |-> 1879]
    /\ ~findCheapest(refreshes[1].analysed, FUEL_TYPE_CONFIG[3],
                     NoCheapest).found

\* The rows of a series that have a price for the fuel.
C20_Priced(data, fuelKey) ==
    {n \in 1..Len(data) : RowPrice(data[n], fuelKey) # NoPrice}

\* C20: the pattern analysis of a fetched series and an active fuel is null
\* exactly when no row has a price for the fuel; otherwise the cheapest and
\* the dearest weekday and hour are buckets that hold a priced row and carry
\* that bucket's own sum and count, no bucket that holds a priced row lies
\* outside them, and the cheapest average is not above the dearest.
C20_PatternBuckets ==
    lastOp.op = "render" =>
      \A i \in 1..Len(refreshes[1].fetches) :
        \A fuelKey \in Range(ActiveFuelTypes(selectedFuelTypes)) :
          \A data \in {PriceHistoryResult(refreshes[1].fetches[i])} :
            \A p \in {analyzePricePatterns(data, fuelKey)} :
              \A Day \in {[d \in 0..6 |->
                             BucketStat(data, fuelKey, FALSE, d)]} :
                \A Hour \in {[h \in 0..23 |->
                                BucketStat(data, fuelKey, TRUE, h)]} :
                  /\ p.isNull <=> C20_Priced(data, fuelKey) = {}
                  /\ ~p.isNull =>
                       /\ Day[p.cheapestDay.index].count > 0
                       /\ Day[p.dearestDay.index].count > 0
                       /\ Hour[p.cheapestHour.index].count > 0
                       /\ Hour[p.dearestHour.index].count > 0
                       /\ p.cheapestDay.stat = Day[p.cheapestDay.index]
                       /\ p.cheapestHour.stat = Hour[p.cheapestHour.index]
                       /\ p.cheapestDay.stat.sum > 0
                       /\ p.cheapestHour.stat.sum > 0
                       /\ ~AvgLess(p.dearestDay.stat, p.cheapestDay.stat)
                       /\ ~AvgLess(p.dearestHour.stat, p.cheapestHour.stat)
                       /\ \A d \in 0..6 :
                            Day[d].count > 0 =>
                              /\ ~AvgLess(Day[d], p.cheapestDay.stat)
                              /\ ~AvgLess(p.dearestDay.stat, Day[d])
                       /\ \A h \in 0..23 :
                            Hour[h].count > 0 =>
                              /\ ~AvgLess(Hour[h], p.cheapestHour.stat)
                              /\ ~AvgLess(p.dearestHour.stat, Hour[h])

\* C20 witness: the pattern block of A is shown for diesel: its two priced
\* rows fall into one weekday and two hours, of which the later is cheaper,
\* while for E10 the analysis is null.
C20_Witness ==
    /\ chart.state = "drawn"
    /\ selectedStations = <<"A">>
    /\ Len(chart.patterns) = 1
    /\ LET p == chart.patterns[1].fuels[1].patterns
       IN /\ chart.patterns[1].fuels[1].fuel = FUEL_TYPE_CONFIG[1]
          /\ p.cheapestDay.index = p.dearestDay.index
          /\ p.cheapestHour.index = 12
          /\ p.dearestHour.index = 0
          /\ AvgLess(p.cheapestHour.stat, p.dearestHour.stat)
    /\ analyzePricePatterns(refreshes[1].analysed[1].data,
                            FUEL_TYPE_CONFIG[3]).isNull

(***************************************************************************)
(* computeAdvice (web-app/src/App.tsx:142-178).  Prices are tenths of a    *)
(* cent.  Sums, products and quotients of the doubles involved are         *)
(* compared exactly; where a double sum rounds away from the decimal sum   *)
(* and the comparison depends on it, the rounding is stated.               *)
(***************************************************************************)
\* The longest series of SpecAdvice.
MaxAdviceRows == 4

\* line 34-39: a PriceRow.
PriceRow(t, diesel, super, e10) ==
    [ts |-> toISOString(t), diesel |-> diesel, super |-> super, e10 |-> e10]

\* The spec's example series: 1.80, 1.82, 1.79, 1.85, 1.78.
ExamplePrices == <<1800, 1820, 1790, 1850, 1780>>

\* The instants the rows of SpecAdvice lie at.
AdviceInstants ==
    1..(1 + (MaxAdviceRows + Len(ExamplePrices)) * InstantsPerDay)

\* line 144: new Date(r.ts).
AdviceDate(ts) == CHOOSE t \in AdviceInstants : toISOString(t) = ts

\* line 147: the least number of priced rows.
MIN_VALUES == 3
\* line 167: 0.02.
BARGAIN_MARGIN == 20
\* line 168: 0.03.
EXPENSIVE_MARGIN == 30

\* line 157: the text Intl.DateTimeFormat("de-DE", {hour: "2-digit",
\* hour12: false}) gives for a date.  ECMA-402 leaves the text to the locale
\* data of the implementation: the hour alone, or the hour inside the
\* locale's pattern for an hour (CLDR, German: HH 'Uhr').
HourStyles == {"digits", "pattern"}
FormatHour(date, style) ==
    IF style = "digits" THEN <<ToString(getHours(date))>>
    ELSE <<ToString(getHours(date)), " Uhr">>

\* Number(text) of line 157 when the text is no numeral.
NotANumber == -1
\* line 157: Number(text).
NumberOf(text) ==
    IF Len(text) = 1 /\ \E h \in 0..23 : ToString(h) = text[1]
    THEN CHOOSE h \in 0..23 : ToString(h) = text[1]
    ELSE NotANumber

RECURSIVE AdviceValues(_, _)
\* line 143-145: the rows with a price for the fuel, as {date, v}.
AdviceValues(rows, fuelKey) ==
    IF rows = <<>> THEN <<>>
    ELSE (IF rows[1][fuelKey] # NoPrice
          THEN <<[date |-> AdviceDate(rows[1].ts), v |-> rows[1][fuelKey]]>>
          ELSE <<>>) \o AdviceValues(Tail(rows), fuelKey)

RECURSIVE InsertAscending(_, _)
InsertAscending(sorted, x) ==
    IF sorted = <<>> THEN <<x>>
    ELSE IF x < sorted[1] THEN <<x>> \o sorted
    ELSE <<sorted[1]>> \o InsertAscending(Tail(sorted), x)

RECURSIVE SortAscending(_)
\* line 150: [...].sort((a, b) => a - b)
SortAscending(s) ==
    IF s = <<>> THEN <<>>
    ELSE InsertAscending(SortAscending(Tail(s)), s[1])

RECURSIVE SumOf(_)
\* line 152: reduce((a, b) => a + b, 0)
SumOf(s) == IF s = <<>> THEN 0 ELSE s[1] + SumOf(Tail(s))

RECURSIVE SumOfSquares(_)
SumOfSquares(s) == IF s = <<>> THEN 0 ELSE s[1] * s[1] + SumOfSquares(Tail(s))

\* line 151: sorted[Math.floor(sorted.length / 2)], arrays counting from 0.
MedianOf(sorted) == sorted[(Len(sorted) \div 2) + 1]

\* line 152-153: std is the root of Spread / n^2, where n is the number of
\* values and Spread == n * (sum of squares) - (sum)^2.
Spread(sorted) ==
    Len(sorted) * SumOfSquares(sorted) - SumOf(sorted) * SumOf(sorted)

RECURSIVE PerHour(_, _, _)
\* line 155-160: sum and n of hour h; the hours are those of `style`.
PerHour(values, style, h) ==
    IF values = <<>> THEN [sum |-> 0, n |-> 0]
    ELSE LET rest == PerHour(Tail(values), style, h)
         IN IF NumberOf(FormatHour(values[1].date, style)) = h
            THEN [sum |-> rest.sum + values[1].v, n |-> rest.n + 1]
            ELSE rest

\* line 161-162: cur.avg < min.avg, where n = 0 stands for Infinity.
HourAvgLess(cur, min) ==
    IF cur.n = 0 THEN FALSE
    ELSE IF min.n = 0 THEN TRUE
    ELSE cur.sum * min.n < min.sum * cur.n

RECURSIVE BestHour(_, _, _)
\* line 162: hourAvg.reduce(..., {h: 0, avg: Infinity}), from hour h on.
BestHour(perHour, h, min) ==
    IF h > 23 THEN min
    ELSE BestHour(perHour, h + 1,
                  IF HourAvgLess(perHour[h], min.avg)
                  THEN [h |-> h, avg |-> perHour[h]] ELSE min)

\* line 167: priceNow <= bestWindow.avg + 0.02
IsBargain(priceNow, avg) ==
    priceNow * avg.n <= avg.sum + BARGAIN_MARGIN * avg.n

\* The medians m of the model's prices for which the double m + 0.03 lies
\* above the double of the decimal sum: 1.1 + 0.03 is 1.1300000000000001,
\* while 1.13 + 0.03 is 1.16.
RoundsAbove == {1100}

\* line 168: priceNow >= median + Math.max(0.03, 1.5 * std)
IsExpensive(priceNow, median, sorted) ==
    LET n == Len(sorted)
        d == priceNow - median
    IN IF 9 * Spread(sorted)
             <= 4 * EXPENSIVE_MARGIN * EXPENSIVE_MARGIN * n * n
       THEN \/ d > EXPENSIVE_MARGIN
            \/ d = EXPENSIVE_MARGIN /\ median \notin RoundsAbove
       ELSE d > 0 /\ 4 * d * d * n * n >= 9 * Spread(sorted)

\* What a call that has not returned an advice leaves in the result.
NoAdvice(kind) ==
    [kind |-> kind, last |-> 0, median |-> 0, mean |-> [sum |-> 0, n |-> 0],
     spread |-> 0,
     bestWindow |-> [startHour |-> 0, endHour |-> 0,
                     avg |-> [sum |-> 0, n |-> 0]],
     decision |-> ""]

\* line 142-178; kind is "null", "advice" or, when line 158 reads a field
\* of perHour[NaN], "thrown".  nextBest is left out.
computeAdvice(rows, fuelKey, style) ==
    LET values == AdviceValues(rows, fuelKey)
    IN IF Len(values) < MIN_VALUES THEN NoAdvice("null")
       ELSE IF \E i \in 1..Len(values) :
                  NumberOf(FormatHour(values[i].date, style)) = NotANumber
       THEN NoAdvice("thrown")
       ELSE LET last == values[Len(values)]
                sorted == SortAscending([i \in 1..Len(values) |-> values[i].v])
                median == MedianOf(sorted)
                perHour == [h \in 0..23 |-> PerHour(values, style, h)]
                bestHour == BestHour(perHour, 0,
                                     [h |-> 0, avg |-> [sum |-> 0, n |-> 0]])
                priceNow == last.v
                isBargain == IsBargain(priceNow, bestHour.avg)
                isExpensive == IsExpensive(priceNow, median, sorted)
            IN [kind |-> "advice", last |-> last.v, median |-> median,
                mean |-> [sum |-> SumOf(sorted), n |-> Len(sorted)],
                spread |-> Spread(sorted),
                bestWindow |-> [startHour |-> bestHour.h,
                                endHour |-> (bestHour.h + 2) % 24,
                                avg |-> bestHour.avg],
                decision |-> IF isBargain THEN "buy"
                             ELSE IF isExpensive THEN "wait" ELSE "neutral"]

(***************************************************************************)
(* SpecAdvice: computeAdvice is called once with some series and fuel.     *)
(***************************************************************************)
\* The prices a row may carry for diesel.
AdvicePrices == {NoPrice, 1100, 1130, 1160}

\* A series with the given diesel prices, its rows `step` instants apart:
\* one instant for rows at successive hours, InstantsPerDay for rows at the
\* same hour of successive days.
SeriesWith(prices, step) ==
    [i \in 1..Len(prices) |->
        PriceRow(1 + (i - 1) * step, prices[i], 1500, NoPrice)]

AdviceSeries ==
    {SeriesWith(prices, step) :
        prices \in SeqsUpTo(AdvicePrices, MaxAdviceRows) \cup {ExamplePrices},
        step \in {1, InstantsPerDay}}

\* The variables of SpecFetch, at rest.
FetchIdle ==
    /\ source = <<>>
    /\ call = <<>>

InitAdvice ==
    /\ FetchIdle
    /\ SelIdle
    /\ RefreshIdle
    /\ \E rows \in AdviceSeries, fuelKey \in {"diesel", "super", "e10"},
          style \in HourStyles :
         advice = [pc |-> "called", rows |-> rows, fuelKey |-> fuelKey,
                   style |-> style, result |-> NoAdvice("")]

\* The call runs to its end.
Advise ==
    /\ advice.pc = "called"
    /\ advice' = [advice EXCEPT
                     !.pc = "returned",
                     !.result = computeAdvice(advice.rows, advice.fuelKey,
                                              advice.style)]
    /\ UNCHANGED <<fetchVars, selVars, refreshVars>>

NextAdvice == Advise

SpecAdvice == InitAdvice /\ [][NextAdvice]_vars

\* The prices of the rows of a series that have one for the fuel.
PricedValues(rows, fuelKey) ==
    LET values == AdviceValues(rows, fuelKey)
    IN [i \in 1..Len(values) |-> values[i].v]

\* C21: the advice is null when the series has fewer than 3 rows with a
\* price for the fuel and an advice for every series with at least 3; the
\* rows without a price enter no statistic.
C21_AdviceFromThreePoints ==
    advice.pc = "returned" =>
        LET priced == PricedValues(advice.rows, advice.fuelKey)
            result == advice.result
        IN /\ Len(priced) < MIN_VALUES => result.kind = "null"
           /\ Len(priced) >= MIN_VALUES =>
                /\ result.kind = "advice"
                /\ result.mean = [sum |-> SumOf(priced), n |-> Len(priced)]
                /\ result.last = priced[Len(priced)]

\* C22: the median of an advice is the median of the priced values: the
\* middle one of an odd number of values, the mean of the two middle ones of
\* an even number; for the example series it is 1.80.
C22_MedianOfPrices ==
    (advice.pc = "returned" /\ advice.result.kind = "advice") =>
        LET sorted == SortAscending(PricedValues(advice.rows, advice.fuelKey))
            n == Len(sorted)
            median == advice.result.median
        IN /\ n % 2 = 1 => median = sorted[(n + 1) \div 2]
           /\ n % 2 = 0 => 2 * median = sorted[n \div 2] + sorted[n \div 2 + 1]
           /\ PricedValues(advice.rows, advice.fuelKey) = ExamplePrices
                  => median = 1800

\* C23: the decision of an advice is "buy" when the last price is at most
\* the best-window average plus 0.02; else "wait" when it is at least the
\* median plus the larger of 0.03 and 1.5 standard deviations; else
\* "neutral".
C23_DecisionRule ==
    (advice.pc = "returned" /\ advice.result.kind = "advice") =>
        LET result == advice.result
            n == result.mean.n
            d == result.last - result.median
            buy == result.last * result.bestWindow.avg.n
                       <= result.bestWindow.avg.sum
                              + BARGAIN_MARGIN * result.bestWindow.avg.n
            wait == /\ d >= EXPENSIVE_MARGIN
                    /\ 4 * d * d * n * n >= 9 * result.spread
        IN result.decision = IF buy THEN "buy"
                             ELSE IF wait THEN "wait" ELSE "neutral"

\* The failed state of startup, as a predicate of one state.
FailedLoadState ==
    /\ (phase # "boot" /\ call.pc = "thrown") => phase = "failedLoad"
    /\ phase = "failedLoad" =>
         /\ call.pc = "thrown"
         /\ allStations = <<>>
         /\ selectedStations = <<>>
         /\ tags = <<>>
         /\ lastOp.op = "init" =>
              /\ recommendation = MSG_LOAD_FAILED
              /\ ~lastOp.refresh

\* C24: when a page request of the directory load fails, startup ends in
\* the failed state with the failure message; the directory, the selection
\* and the tags are and stay empty; the failing step restores nothing from
\* the URL or the store and starts no refresh; and while the page stays
\* failed no further request of the load is issued.
C24_DirectoryFailureIsFatal ==
    [][/\ FailedLoadState
       /\ FailedLoadState'
       /\ (phase = "boot" /\ phase' = "failedLoad") =>
            UNCHANGED <<selectedFuelTypes, selectedTimeRange, localStorage,
                        location, resetBtnVisible>>
       /\ (phase = "failedLoad" /\ phase' = "failedLoad") =>
            UNCHANGED call]_vars

\* C24 witness: the second page request of the directory has failed after a
\* first page was received, with a selection in the URL and in the store.
C24_Witness ==
    /\ phase = "failedLoad"
    /\ lastOp.op = "init"
    /\ Len(call.pages) = 1
    /\ Len(call.requests) = 2
    /\ location.stations = <<"A">>
    /\ localStorage.selectedStationIds \notin {Null, <<>>}
    /\ selectedStations = <<>>
    /\ recommendation = MSG_LOAD_FAILED

\* C25: an activation that resumes and renders replaces the chart and the
\* analysis on the page, whichever activation drew them before: also an
\* older activation whose fetches settle after those of a newer one.
C25_StaleRefreshRendersLast ==
    [][\A k \in 1..Len(refreshes) :
          (/\ refreshes[k].pc = "await"
           /\ refreshes'[k].pc = "done"
           /\ refreshes'[k].outcome = "rendered")
          => /\ chart'.state = "drawn"
             /\ chart'.by = k
             /\ chart'.lines = refreshes'[k].lines
             /\ chart'.cheapest
                    = CheapestLines(refreshes'[k].analysed, selectedFuelTypes)]_vars

\* C25 witness: every fetch has settled, two activations have rendered, and
\* the page shows the chart of the older one.
C25_Witness ==
    /\ Len(refreshes) = MaxRefreshes
    /\ \A k \in 1..Len(refreshes) : refreshes[k].pc = "done"
    /\ \E k \in 1..Len(refreshes) :
         \E j \in (k + 1)..Len(refreshes) :
            /\ refreshes[k].outcome = "rendered"
            /\ refreshes[j].outcome = "rendered"
            /\ refreshes[j].lines # refreshes[k].lines
            /\ chart.state = "drawn"
            /\ chart.by = k
            /\ chart.lines = refreshes[k].lines

\* C26: in every chart and analysis an activation renders, each station
\* has the rows that the activation fetched for that station's id.
C26_RowsOfTheSameStation ==
    \A k \in 1..Len(refreshes) :
        LET r == refreshes[k]
        IN (r.pc = "done" /\ r.outcome = "rendered") =>
             \A j \in 1..Len(r.analysed) :
                \E i \in 1..Len(r.fetches) :
                   /\ r.fetches[i].query = station_id(r.analysed[j].station)[1]
                   /\ r.analysed[j].data = PriceHistoryResult(r.fetches[i])
                   /\ r.lines[j].station = r.analysed[j].station
                   /\ r.lines[j].data
                          = filterDataByTimeRange(
                                PriceHistoryResult(r.fetches[i]), r.range)

\* C27: an activation that starts has issued the first request of the fetch
\* of every selected station and has received no response; and it has
\* rendered (or shown its error) only when every one of its fetches has
\* returned its rows or failed, in whatever order.
C27_FireThenAwaitAll ==
    /\ [](\A k \in 1..Len(refreshes) :
             LET r == refreshes[k]
             IN /\ Len(r.fetches) = Len(r.stations)
                /\ \A i \in 1..Len(r.fetches) :
                     /\ r.fetches[i].query = station_id(r.stations[i])[1]
                     /\ Len(r.fetches[i].requests) >= 1
                /\ r.pc = "done" =>
                     \A i \in 1..Len(r.fetches) :
                        r.fetches[i].pc \in {"returned", "thrown"}
                /\ r.pc = "await" =>
                     /\ r.outcome = "pending"
                     /\ chart.by # k)
    /\ [][Len(refreshes') > Len(refreshes) =>
             LET r == refreshes'[Len(refreshes')]
             IN /\ r.pc = "await"
                /\ r.stations = selectedStations'
                /\ \A i \in 1..Len(r.fetches) :
                     /\ Len(r.fetches[i].requests) = 1
                     /\ r.fetches[i].requests[1].offset = 0
                     /\ r.fetches[i].pages = <<>>
                     /\ r.fetches[i].statuses = <<>>]_vars

\* C27 witness: of two fetches of one activation the second has settled
\* while the first is between its pages, and nothing is rendered yet.
C27_Witness ==
    \E k \in 1..Len(refreshes) :
        LET r == refreshes[k]
        IN /\ r.pc = "await"
           /\ Len(r.fetches) = 2
           /\ r.fetches[2].pc = "returned"
           /\ r.fetches[1].pc = "await"
           /\ Len(r.fetches[1].pages) = 1
           /\ r.outcome = "pending"
           /\ chart.by # k

\* C28: every handler that changes the selected stations, the fuel types or
\* the time range (add, remove, fuel types, preset, zoom, reset zoom) calls
\* updateChartAndAnalysis.
C28_EveryChangeRefreshes ==
    [][(/\ lastOp'.op \in {"add", "remove", "fuels", "preset", "zoom",
                           "resetZoom"}
        /\ <<selectedStations, selectedFuelTypes, selectedTimeRange>>'
               # <<selectedStations, selectedFuelTypes, selectedTimeRange>>)
       => lastOp'.refresh]_vars

\* C29: in every state the active fuel keys are among the three keys of
\* FUEL_TYPE_CONFIG, also after the state was restored from the `fuels`
\* parameter of the URL or from the store.
C29_KnownFuelKeys ==
    Range(selectedFuelTypes) \subseteq Range(FUEL_TYPE_CONFIG)

(***************************************************************************)
(* SpecFetchLive: one call of fetchPaginatedData against a finite row      *)
(* source whose service answers every request with status 200: with the    *)
(* page LIMIT and OFFSET ask for, or with a body that has no `rows` array. *)
(***************************************************************************)
\* The successful answers to the request in flight.
Answers(src, url) == {resp \in Responses(src, url) : ResponseOk(resp)}

\* The request in flight is answered; a call never has more requests than
\* its source has rows, plus one.
FetchAnswer ==
    /\ call.pc = "await"
    /\ Len(call.requests) <= MaxRows + 1
    /\ \E resp \in Answers(source, LastRequest(call)) :
           call' = OnResponse(call, resp)
    /\ UNCHANGED <<source, selVars, refreshVars, advice>>

NextFetchLive == FetchAnswer

\* Every request is answered in the end.
SpecFetchLive ==
    InitFetch /\ [][NextFetchLive]_vars /\ WF_vars(FetchAnswer)

\* C30: over a finite row source whose service answers every request
\* successfully the call returns in the end; and a page of zero rows, which
\* is what an answer without a `rows` array counts as, ends the call at
\* once with the rows collected so far.
C30_EventuallyReturns ==
    /\ <>(call.pc = "returned")
    /\ [][(/\ Len(call'.pages) > Len(call.pages)
           /\ call'.pages[Len(call'.pages)] = <<>>)
          => /\ call'.pc = "returned"
             /\ call'.result = call.allRows
             /\ call'.requests = call.requests]_vars

\* C30 witness: the call has returned after a full page and an answer
\* without `rows` to the request for a page that holds rows.
C30_Witness ==
    /\ call.pc = "returned"
    /\ Len(call.pages) = 2
    /\ Len(call.pages[1]) = PAGE_SIZE
    /\ call.pages[2] = <<>>
    /\ ServerPage(source, LastRequest(call)) # <<>>
    /\ call.result = call.pages[1]

====
